---- MODULE Spec2Model ----
(***************************************************************************)
(* Bill Printing App API: the order endpoints of src/main.py over the      *)
(* "menuitem" and "order" collections.                                     *)
(*                                                                         *)
(* Amounts are Python floats in the source.  They are modelled as exact    *)
(* rationals [n |-> numerator, d |-> denominator] in lowest terms, in      *)
(* currency units (100 is [n |-> 100, d |-> 1], 7.5 is [n |-> 15, d |-> 2]).*)
(* round(x, 2) is modelled as the nearest multiple of 1/100; where the     *)
(* exact value lies half-way between two multiples the binary float may    *)
(* sit on either side, so both neighbours are possible outcomes.           *)
(***************************************************************************)
EXTENDS Integers, Sequences, FiniteSets, TLC

VARIABLES
    menu,     \* db["menuitem"]: ObjectId -> document
    orders,   \* db["order"]: ObjectId -> document
    req,      \* the last request handled: its endpoint and arguments
    resp,     \* its response: HTTP status code and body
    lookups   \* the store lookups it made, in order

vars == <<menu, orders, req, resp, lookups>>

\* Python None / JSON null, and a field that is not present in a document.
Null == "null"
Absent == "absent"

-----------------------------------------------------------------------------
(* Bounds of the model *)

\* Number of hex digits of an identity string (24 for a bson ObjectId).
OidLen == 2
\* Documents the menuitem collection may hold.
MaxMenu == 2
\* Documents the order collection may hold.
MaxOrders == 2
\* Lines of a priced cart.
MaxLines == 2
\* Payments recorded on one order.
MaxPayments == 2

-----------------------------------------------------------------------------
(* Float arithmetic as exact rationals *)

Abs(x) == IF x < 0 THEN -x ELSE x

RECURSIVE GCD(_, _)
GCD(a, b) == IF b = 0 THEN a ELSE GCD(b, a % b)

\* The rational n/d (d # 0) in lowest terms with a positive denominator.
Q(n, d) ==
    LET s == IF d < 0 THEN -1 ELSE 1
        g == GCD(Abs(n), Abs(d))
    IN  [n |-> (s * n) \div g, d |-> (s * d) \div g]

Zero == [n |-> 0, d |-> 1]

\* Sums over the least common denominator, so that intermediate values stay small.
QAdd(a, b) ==
    LET g == GCD(a.d, b.d)
    IN  Q(a.n * (b.d \div g) + b.n * (a.d \div g), (a.d \div g) * b.d)
QSub(a, b) == QAdd(a, [n |-> -b.n, d |-> b.d])
\* Cross-reduced product, so that intermediate values stay small.
QMul(a, b) ==
    LET g1 == GCD(Abs(a.n), b.d)
        g2 == GCD(Abs(b.n), a.d)
    IN  Q((a.n \div g1) * (b.n \div g2), (a.d \div g2) * (b.d \div g1))
QDiv(a, b) == QMul(a, Q(b.d, b.n))
QLe(a, b) == a.n * b.d <= b.n * a.d
QMax(a, b) == IF QLe(a, b) THEN b ELSE a
QInt(k) == [n |-> k, d |-> 1]

\* round(x, 2): the multiples of 1/100 nearest to x.
Round2(x) ==
    LET m == QMul(QInt(100), x)
        f == m.n \div m.d
        r == m.n % m.d
    IN  IF 2 * r < m.d THEN {Q(f, 100)}
        ELSE IF 2 * r > m.d THEN {Q(f + 1, 100)}
        ELSE {Q(f, 100), Q(f + 1, 100)}

-----------------------------------------------------------------------------
(* Identities *)

HexLower == {"0", "1", "2", "3", "4", "5", "6", "7", "8", "9",
             "a", "b", "c", "d", "e", "f"}
HexUpper == {"A", "B", "C", "D", "E", "F"}

Lower(c) ==
    CASE c = "A" -> "a" [] c = "B" -> "b" [] c = "C" -> "c"
      [] c = "D" -> "d" [] c = "E" -> "e" [] c = "F" -> "f"
      [] OTHER -> c

\* The identity string made of OidLen copies of one character.
Pad(c) == [i \in 1..OidLen |-> c]

\* to_oid that checks the length of the string alone.
to_oid_any_char(id_str) ==
    IF Len(id_str) = OidLen
    THEN [ok |-> TRUE, oid |-> [i \in 1..OidLen |-> Lower(id_str[i])]]
    ELSE [ok |-> FALSE, oid |-> <<>>]

\* ObjectId(id_str): the string must be OidLen hex digits of either case; the
\* ObjectId holds their value, which prints in lower case.
to_oid(id_str) ==
    IF Len(id_str) = OidLen /\ \A i \in 1..Len(id_str) : id_str[i] \in HexLower \cup HexUpper
    THEN [ok |-> TRUE, oid |-> [i \in 1..OidLen |-> Lower(id_str[i])]]
    ELSE [ok |-> FALSE, oid |-> <<>>]

\* str(ObjectId)
OidStr(oid) == oid

\* Identities the store hands out, in order of insertion, per collection.
MenuKeys == <<"1", "2", "3", "4">>
OrderKeys == <<"a", "b", "c", "d">>

\* create_document(collection, data): insert, returning the new identity.
NewOid(store, keys) == Pad(keys[Cardinality(DOMAIN store) + 1])

create_document(store, keys, doc) ==
    [x \in DOMAIN store \cup {NewOid(store, keys)} |->
        IF x \in DOMAIN store THEN store[x] ELSE doc]

-----------------------------------------------------------------------------
(* State after construction: both collections empty, nothing called yet. *)

NoDoc == [x \in {} |-> Null]

Init ==
    /\ menu = NoDoc
    /\ orders = NoDoc
    /\ req = [op |-> "none"]
    /\ resp = [op |-> "none", code |-> 0, body |-> Null]
    /\ lookups = <<>>

HttpError(op, code, detail) == [op |-> op, code |-> code, body |-> detail]
HttpOk(op, body) == [op |-> op, code |-> 200, body |-> body]

-----------------------------------------------------------------------------
(* POST /menu *)

create_menu_item(item) ==
    /\ menu' = create_document(menu, MenuKeys, item)
    /\ req' = [op |-> "create_menu_item", item |-> item]
    /\ resp' = HttpOk("create_menu_item", [id |-> OidStr(NewOid(menu, MenuKeys))])
    /\ lookups' = <<>>
    /\ UNCHANGED orders

-----------------------------------------------------------------------------
(* POST /orders *)

\* collection.find_one({"_id": oid}): the documents found, none or one.
find_one(store, oid) == IF oid \in DOMAIN store THEN <<store[oid]>> ELSE <<>>

LineSubtotal(unit_price, quantity) == QMul(unit_price, QInt(quantity))
LineTax(line_subtotal, gst_rate) == QMul(line_subtotal, gst_rate)

ExpandedItem(oi, mi) ==
    [menu_item_id |-> oi.menu_item_id,
     name |-> mi.name,
     price |-> mi.price,
     quantity |-> oi.quantity,
     notes |-> oi.notes,
     gst_rate |-> mi.gst_rate]

\* ExpandLine that passes over a line whose menu item is not found.
ExpandLineSkipMissing(oi, st) ==
    LET o == to_oid(oi.menu_item_id)
    IN  IF ~o.ok THEN [st EXCEPT !.err = 400]
        ELSE
            LET seen == Append(st.lookups, [coll |-> "menuitem", oid |-> o.oid])
                found == find_one(menu, o.oid)
            IN  IF found = <<>> THEN [st EXCEPT !.lookups = seen]
                ELSE
                    LET mi == found[1]
                        line_subtotal == LineSubtotal(mi.price, oi.quantity)
                        line_tax == LineTax(line_subtotal, mi.gst_rate)
                    IN  [subtotal |-> QAdd(st.subtotal, line_subtotal),
                         tax_total |-> QAdd(st.tax_total, line_tax),
                         expanded |-> Append(st.expanded, ExpandedItem(oi, mi)),
                         lookups |-> seen,
                         err |-> 0]

\* One pass of the for loop of create_order over line oi; st carries the running
\* sums, the expanded lines, the lookups made so far and the HTTP error raised
\* (0: none).
ExpandLine(oi, st) ==
    LET o == to_oid(oi.menu_item_id)
    IN  IF ~o.ok THEN [st EXCEPT !.err = 400]
        ELSE
            LET seen == Append(st.lookups, [coll |-> "menuitem", oid |-> o.oid])
                found == find_one(menu, o.oid)
            IN  IF found = <<>> THEN [st EXCEPT !.err = 404, !.lookups = seen]
                ELSE
                    LET mi == found[1]
                        line_subtotal == LineSubtotal(mi.price, oi.quantity)
                        line_tax == LineTax(line_subtotal, mi.gst_rate)
                    IN  [subtotal |-> QAdd(st.subtotal, line_subtotal),
                         tax_total |-> QAdd(st.tax_total, line_tax),
                         expanded |-> Append(st.expanded, ExpandedItem(oi, mi)),
                         lookups |-> seen,
                         err |-> 0]

\* The for loop from line i on: an HTTPException raised in a pass ends the call.
RECURSIVE ExpandItems(_, _, _)
ExpandItems(items, i, st) ==
    IF i > Len(items) \/ st.err # 0 THEN st
    ELSE ExpandItems(items, i + 1, ExpandLine(items[i], st))

NoItems == [subtotal |-> Zero, tax_total |-> Zero, expanded |-> <<>>,
            lookups |-> <<>>, err |-> 0]

\* SubtotalAfterDiscount without the clamp at zero.
SubtotalUnclamped(subtotal, discount) == QSub(subtotal, discount)

SubtotalAfterDiscount(subtotal, discount) == QMax(Zero, QSub(subtotal, discount))

TaxRatio(subtotal, tax_total) ==
    IF subtotal = Zero THEN Zero ELSE QDiv(tax_total, subtotal)

TaxTotalDiscounted(subtotal_after_discount, tax_ratio) ==
    QMul(subtotal_after_discount, tax_ratio)

GrandTotal(subtotal_after_discount, tax_total_discounted) ==
    QAdd(subtotal_after_discount, tax_total_discounted)

OrderDoc(table_no, customer_id, items, subtotal, tax_total, grand_total, discount, notes) ==
    [table_no |-> table_no,
     customer_id |-> customer_id,
     status |-> "pending",
     items |-> items,
     subtotal |-> subtotal,
     tax_total |-> tax_total,
     grand_total |-> grand_total,
     payments |-> <<>>,
     discount |-> discount,
     notes |-> notes,
     updated_at |-> Absent]

create_order(table_no, customer_id, items, discount, notes) ==
    LET st == ExpandItems(items, 1, NoItems)
        subtotal_after_discount == SubtotalAfterDiscount(st.subtotal, discount)
        tax_ratio == TaxRatio(st.subtotal, st.tax_total)
        tax_total_discounted == TaxTotalDiscounted(subtotal_after_discount, tax_ratio)
        grand_total == GrandTotal(subtotal_after_discount, tax_total_discounted)
    IN  /\ req' = [op |-> "create_order", table_no |-> table_no,
                   customer_id |-> customer_id, items |-> items,
                   discount |-> discount, notes |-> notes]
        /\ lookups' = st.lookups
        /\ UNCHANGED menu
        /\ IF st.err = 400
           THEN /\ resp' = HttpError("create_order", 400, "Invalid id")
                /\ UNCHANGED orders
           ELSE IF st.err = 404
           THEN /\ resp' = HttpError("create_order", 404, "Menu item not found")
                /\ UNCHANGED orders
           ELSE \E s \in Round2(subtotal_after_discount),
                   t \in Round2(tax_total_discounted),
                   g \in Round2(grand_total) :
                    LET order_doc == OrderDoc(table_no, customer_id, st.expanded,
                                              s, t, g, discount, notes)
                    IN  /\ orders' = create_document(orders, OrderKeys, order_doc)
                        /\ resp' = HttpOk("create_order",
                                [id |-> OidStr(NewOid(orders, OrderKeys)),
                                 totals |-> [subtotal |-> order_doc.subtotal,
                                             tax_total |-> order_doc.tax_total,
                                             grand_total |-> order_doc.grand_total]])

-----------------------------------------------------------------------------
(* PATCH /orders/{order_id}/status *)

\* SetStatus that leaves a served or cancelled order as it is.
SetStatusUnlessFinal(doc, status) ==
    IF doc.status \in {"served", "cancelled"} THEN doc ELSE [doc EXCEPT !.status = status]

\* {"$set": {"status": status}}
SetStatus(doc, status) == [doc EXCEPT !.status = status]

\* collection.update_one({"_id": oid}, update): the first matching document is
\* replaced by its updated form; matched_count is the number of matches.
matched_count(store, oid) == IF oid \in DOMAIN store THEN 1 ELSE 0

update_one(store, oid, updated) ==
    [x \in DOMAIN store |-> IF x = oid THEN updated ELSE store[x]]

update_order_status(order_id, status) ==
    LET o == to_oid(order_id)
    IN  /\ req' = [op |-> "update_order_status", order_id |-> order_id, status |-> status]
        /\ UNCHANGED menu
        /\ IF ~o.ok
           THEN /\ resp' = HttpError("update_order_status", 400, "Invalid id")
                /\ lookups' = <<>>
                /\ UNCHANGED orders
           ELSE /\ lookups' = <<[coll |-> "order", oid |-> o.oid]>>
                /\ IF matched_count(orders, o.oid) = 0
                   THEN /\ resp' = HttpError("update_order_status", 404, "Order not found")
                        /\ UNCHANGED orders
                   ELSE /\ orders' = update_one(orders, o.oid, SetStatus(orders[o.oid], status))
                        /\ resp' = HttpOk("update_order_status", [ok |-> TRUE])

-----------------------------------------------------------------------------
(* POST /orders/{order_id}/pay *)

\* payment.model_dump()
model_dump(payment) ==
    [method |-> payment.method, amount |-> payment.amount, reference |-> payment.reference]

\* PushPayment as $addToSet: a payment already in the list is not added again.
PushPaymentOnce(doc, payment) ==
    IF \E i \in 1..Len(doc.payments) : doc.payments[i] = payment
    THEN [doc EXCEPT !.updated_at = Null]
    ELSE [doc EXCEPT !.payments = Append(@, payment), !.updated_at = Null]

\* PushPayment that also marks the order served.
PushPaymentAndServe(doc, payment) ==
    [doc EXCEPT !.payments = Append(@, payment), !.updated_at = Null, !.status = "served"]

\* {"$push": {"payments": payment}, "$set": {"updated_at": None}}
PushPayment(doc, payment) ==
    [doc EXCEPT !.payments = Append(@, payment), !.updated_at = Null]

add_payment(order_id, payment) ==
    LET o == to_oid(order_id)
    IN  /\ req' = [op |-> "add_payment", order_id |-> order_id, payment |-> payment]
        /\ UNCHANGED menu
        /\ IF ~o.ok
           THEN /\ resp' = HttpError("add_payment", 400, "Invalid id")
                /\ lookups' = <<>>
                /\ UNCHANGED orders
           ELSE /\ lookups' = <<[coll |-> "order", oid |-> o.oid]>>
                /\ IF matched_count(orders, o.oid) = 0
                   THEN /\ resp' = HttpError("add_payment", 404, "Order not found")
                        /\ UNCHANGED orders
                   ELSE /\ orders' = update_one(orders, o.oid,
                                        PushPayment(orders[o.oid], model_dump(payment)))
                        /\ resp' = HttpOk("add_payment", [ok |-> TRUE])

-----------------------------------------------------------------------------
(* POST /reports/sales *)

\* {"$sum": "$grand_total"} over the documents with identities in ids.
RECURSIVE SumGrandTotal(_, _)
SumGrandTotal(store, ids) ==
    IF ids = {} THEN Zero
    ELSE LET x == CHOOSE y \in ids : TRUE
         IN  QAdd(store[x].grand_total, SumGrandTotal(store, ids \ {x}))

\* Pipeline with a $match stage that drops cancelled orders.
PipelineWithoutCancelled(store) == {x \in DOMAIN store : store[x].status # "cancelled"}

\* The pipeline of sales_report: one $group stage over every order document.
Pipeline(store) == DOMAIN store

\* list(db["order"].aggregate(pipeline)): no group when no document comes in.
aggregate(store) ==
    IF Pipeline(store) = {} THEN <<>>
    ELSE <<[revenue |-> SumGrandTotal(store, Pipeline(store)),
            orders |-> Cardinality(Pipeline(store))]>>

sales_report(filters) ==
    LET data == aggregate(orders)
    IN  /\ req' = [op |-> "sales_report", filters |-> filters]
        /\ lookups' = <<>>
        /\ UNCHANGED <<menu, orders>>
        /\ IF data = <<>>
           THEN resp' = HttpOk("sales_report", [revenue |-> Zero, orders |-> 0])
           ELSE \E r \in Round2(data[1].revenue) :
                    resp' = HttpOk("sales_report", [revenue |-> r, orders |-> data[1].orders])

-----------------------------------------------------------------------------
(* GET /orders/{order_id}/bill *)

\* Bill that prices the lines again, without the discount.
RECURSIVE LinesTotal(_, _)
LinesTotal(items, i) ==
    IF i > Len(items) THEN Zero
    ELSE QAdd(QMul(LineSubtotal(items[i].price, items[i].quantity),
                   QAdd(QInt(1), items[i].gst_rate)),
              LinesTotal(items, i + 1))

BillRepriced(oid, o) ==
    [f \in DOMAIN o \cup {"_id"} |->
        IF f = "_id" THEN OidStr(oid)
        ELSE IF f = "grand_total" THEN LinesTotal(o.items, 1)
        ELSE o[f]]

\* o["_id"] = str(o["_id"]); return o
Bill(oid, o) ==
    [f \in DOMAIN o \cup {"_id"} |-> IF f = "_id" THEN OidStr(oid) ELSE o[f]]

get_order_bill(order_id) ==
    LET o == to_oid(order_id)
    IN  /\ req' = [op |-> "get_order_bill", order_id |-> order_id]
        /\ UNCHANGED <<menu, orders>>
        /\ IF ~o.ok
           THEN /\ resp' = HttpError("get_order_bill", 400, "Invalid id")
                /\ lookups' = <<>>
           ELSE /\ lookups' = <<[coll |-> "order", oid |-> o.oid]>>
                /\ IF find_one(orders, o.oid) = <<>>
                   THEN resp' = HttpError("get_order_bill", 404, "Order not found")
                   ELSE resp' = HttpOk("get_order_bill", Bill(o.oid, find_one(orders, o.oid)[1]))

-----------------------------------------------------------------------------
(* Inputs *)

\* MenuItem records as POST /menu validates them: price >= 0, 0 <= gst_rate <= 0.28.
Chai == [name |-> "Chai", price |-> QInt(100), gst_rate |-> Q(1, 20), is_available |-> TRUE]
Mint == [name |-> "Mint", price |-> Q(1, 10), gst_rate |-> Q(1, 20), is_available |-> TRUE]
Soda == [name |-> "Soda", price |-> Q(3, 2), gst_rate |-> Q(9, 50), is_available |-> TRUE]

Quantities == {1, 2}

Line(id_str, quantity) == [menu_item_id |-> id_str, quantity |-> quantity, notes |-> Null]

SeqsUpTo(S, n) == UNION {[1..k -> S] : k \in 0..n}

PricingItems == {Chai, Mint, Soda}
PricingLines == {Line(Pad(c), q) : c \in {"1", "2", "a", "g"}, q \in Quantities}
PricingCarts == SeqsUpTo(PricingLines, MaxLines)
PricingDiscounts == {Zero, QInt(50), QInt(1000), Q(1, 8), QInt(-1)}

\* The catalog is filled, then one cart is priced.
NextPricing ==
    \/ /\ Cardinality(DOMAIN menu) < MaxMenu
       /\ \E item \in PricingItems : create_menu_item(item)
    \/ /\ DOMAIN orders = {}
       /\ req.op # "create_order"
       /\ \E items \in PricingCarts, discount \in PricingDiscounts :
            create_order(Null, Null, items, discount, Null)

SpecPricing == Init /\ [][NextPricing]_vars

\* The values the Order and Payment schemas enumerate, and values outside them.
OrderStatuses == {"pending", "preparing", "ready", "served", "cancelled"}
PaymentMethods == {"cash", "card", "upi", "wallet", "split", "other"}
StatusInputs == OrderStatuses \cup {"refunded"}

Cash == [method |-> "cash", amount |-> QInt(100), reference |-> Null]
Coin == [method |-> "bitcoin", amount |-> QInt(-5), reference |-> "tx1"]
PaymentInputs == {Cash, Coin}

Filters == {[date_from |-> Null, date_to |-> Null],
            [date_from |-> "2024-01-01", date_to |-> "2024-01-31"]}

\* An identity string one character short.
ShortId == [i \in 1..(OidLen - 1) |-> "a"]

PaymentCount(order_id) ==
    IF to_oid(order_id).ok /\ to_oid(order_id).oid \in DOMAIN orders
    THEN Len(orders[to_oid(order_id).oid].payments)
    ELSE 0

\* Orders of one menu item are created, their status is rewritten and the sales
\* are reported.
StatusCarts == {<<Line(Pad("1"), 1)>>, <<Line(Pad("1"), 2)>>}
StatusIds == {Pad("a"), Pad("b"), Pad("1"), Pad("g")}

NextStatus ==
    \/ /\ DOMAIN menu = {}
       /\ create_menu_item(Chai)
    \/ /\ Cardinality(DOMAIN orders) < MaxOrders
       /\ \E items \in StatusCarts : create_order("T1", Null, items, Zero, Null)
    \/ \E order_id \in StatusIds, status \in StatusInputs :
            update_order_status(order_id, status)
    \/ \E filters \in Filters : sales_report(filters)

SpecStatus == Init /\ [][NextStatus]_vars

\* Orders of one menu item are created and paid.
PayIds == {Pad("a"), Pad("A"), Pad("b"), Pad("1"), ShortId}

NextPay ==
    \/ /\ DOMAIN menu = {}
       /\ create_menu_item(Chai)
    \/ /\ Cardinality(DOMAIN orders) < MaxOrders
       /\ create_order("T1", Null, <<Line(Pad("1"), 2)>>, QInt(50), "no ice")
    \/ \E order_id \in PayIds, payment \in PaymentInputs :
        /\ PaymentCount(order_id) < MaxPayments
        /\ add_payment(order_id, payment)

SpecPay == Init /\ [][NextPay]_vars

\* Every endpoint, on few inputs.
Carts == {<<[menu_item_id |-> Pad("1"), quantity |-> 2, notes |-> "hot"]>>,
          <<Line(Pad("2"), 1), Line(Pad("1"), 1)>>,
          <<Line(Pad("1"), 1), Line(Pad("g"), 1)>>,
          <<Line(Pad("a"), 1), Line(Pad("g"), 1)>>,
          <<Line(ShortId, 1), Line(Pad("a"), 1)>>}
BillIds == {Pad("a"), Pad("A"), Pad("b"), Pad("1"), Pad("g")}

Next ==
    \/ /\ Cardinality(DOMAIN menu) < MaxMenu
       /\ \E item \in {Chai, Soda} : create_menu_item(item)
    \/ /\ Cardinality(DOMAIN orders) < MaxOrders
       /\ \E items \in Carts : create_order("T1", Null, items, QInt(50), Null)
    \/ \E order_id \in {Pad("a"), Pad("g")}, status \in {"served", "refunded"} :
            update_order_status(order_id, status)
    \/ \E order_id \in {Pad("a"), ShortId} :
        /\ PaymentCount(order_id) < MaxPayments
        /\ add_payment(order_id, Cash)
    \/ \E order_id \in BillIds : get_order_bill(order_id)
    \/ sales_report([date_from |-> Null, date_to |-> Null])

Spec == Init /\ [][Next]_vars

-----------------------------------------------------------------------------
(* Vocabulary of the properties, stated apart from the endpoints' code *)

IsHex(c) ==
    c \in {"0", "1", "2", "3", "4", "5", "6", "7", "8", "9",
           "a", "b", "c", "d", "e", "f", "A", "B", "C", "D", "E", "F"}

\* An identity string in the store's native format.
WellFormed(id_str) == Len(id_str) = OidLen /\ \A i \in 1..OidLen : IsHex(id_str[i])

\* The identity a well-formed string denotes.
Denoted(id_str) == [i \in 1..OidLen |-> Lower(id_str[i])]

ResolvesIn(store, id_str) == WellFormed(id_str) /\ Denoted(id_str) \in DOMAIN store
UnknownIn(store, id_str) == WellFormed(id_str) /\ Denoted(id_str) \notin DOMAIN store

\* The first line of a cart that does not resolve to a stored menu item (0: none).
FirstUnresolved(items) ==
    IF \A i \in 1..Len(items) : ResolvesIn(menu, items[i].menu_item_id) THEN 0
    ELSE CHOOSE k \in 1..Len(items) :
            /\ ~ResolvesIn(menu, items[k].menu_item_id)
            /\ \A i \in 1..(k - 1) : ResolvesIn(menu, items[i].menu_item_id)

QAbs(a) == [n |-> Abs(a.n), d |-> a.d]

\* r has at most 2 decimals and no number of 2 decimals is nearer to x.
IsRounded2(x, r) == 100 % r.d = 0 /\ QLe(QAbs(QSub(r, x)), Q(1, 200))

\* S and T of a cart over the catalog: the sums of price * quantity and of
\* price * quantity * gst_rate over lines i..Len(items).
RECURSIVE CartSum(_, _, _)
CartSum(items, i, taxed) ==
    IF i > Len(items) THEN Zero
    ELSE LET mi == menu[Denoted(items[i].menu_item_id)]
             amount == QMul(mi.price, QInt(items[i].quantity))
         IN  QAdd(IF taxed THEN QMul(amount, mi.gst_rate) ELSE amount,
                  CartSum(items, i + 1, taxed))

ExpectedSubtotal(items, discount) ==
    LET S == CartSum(items, 1, FALSE)
    IN  IF QLe(S, discount) THEN Zero ELSE QSub(S, discount)

ExpectedTax(items, discount) ==
    LET S == CartSum(items, 1, FALSE)
        T == CartSum(items, 1, TRUE)
    IN  IF S.n = 0 THEN Zero ELSE QDiv(QMul(ExpectedSubtotal(items, discount), T), S)

-----------------------------------------------------------------------------
(* Properties *)

\* C1 as stated: whenever some line of the cart is a well-formed identity that no
\* stored menu item has, create_order fails with not-found (404) and the order
\* store is unchanged.
C1_UnknownLineGivesNotFound ==
    [][(/\ req'.op = "create_order"
        /\ \E i \in 1..Len(req'.items) : UnknownIn(menu, req'.items[i].menu_item_id))
       => (resp'.code = 404 /\ orders' = orders)]_vars

\* C1 amended: whenever some line of the cart does not resolve to a stored menu
\* item, create_order fails and the order store is unchanged; the failure is
\* not-found (404) when the first such line is well-formed and invalid-id (400)
\* when the first such line is malformed.
C1_AllOrNothing ==
    [][(req'.op = "create_order" /\ FirstUnresolved(req'.items) # 0)
       => LET k == FirstUnresolved(req'.items)
          IN  /\ orders' = orders
              /\ resp'.code = IF WellFormed(req'.items[k].menu_item_id) THEN 404 ELSE 400]_vars

\* C1 witness: a cart whose first line resolves and whose second line is an
\* unknown identity was refused with 404 and nothing was stored.
C1_Witness ==
    /\ req.op = "create_order"
    /\ Len(req.items) = 2
    /\ ResolvesIn(menu, req.items[1].menu_item_id)
    /\ UnknownIn(menu, req.items[2].menu_item_id)
    /\ resp.code = 404
    /\ DOMAIN orders = {}

\* The totals of the order create_order stored for the cart of the last request:
\* subtotal = max(0, S - discount), tax_total = that subtotal * T / S (0 when
\* S = 0), grand_total = their sum, each rounded to 2 decimals; the returned
\* totals are the stored ones; 100 at 5% twice with discount 50 gives
\* 150 / 7.5 / 157.5; a discount >= S gives a grand total of 0.
StoredTotalsAsPriced ==
    /\ resp.code = 200
    /\ WellFormed(resp.body.id)
    /\ Denoted(resp.body.id) \in DOMAIN orders
    /\ LET o == orders[Denoted(resp.body.id)]
           sub == ExpectedSubtotal(req.items, req.discount)
           tax == ExpectedTax(req.items, req.discount)
       IN  /\ IsRounded2(sub, o.subtotal)
           /\ IsRounded2(tax, o.tax_total)
           /\ IsRounded2(QAdd(sub, tax), o.grand_total)
           /\ resp.body.totals = [subtotal |-> o.subtotal,
                                  tax_total |-> o.tax_total,
                                  grand_total |-> o.grand_total]
           /\ (/\ Len(req.items) = 1
               /\ req.items[1].quantity = 2
               /\ menu[Denoted(req.items[1].menu_item_id)].price = QInt(100)
               /\ menu[Denoted(req.items[1].menu_item_id)].gst_rate = Q(5, 100)
               /\ req.discount = QInt(50))
              => (/\ o.subtotal = QInt(150)
                  /\ o.tax_total = Q(75, 10)
                  /\ o.grand_total = Q(1575, 10))
           /\ QLe(CartSum(req.items, 1, FALSE), req.discount) => o.grand_total = Zero

StoredTotalsAreZero ==
    LET o == orders[Denoted(resp.body.id)]
    IN  o.subtotal = Zero /\ o.tax_total = Zero /\ o.grand_total = Zero

\* C2 as stated: when every line of the cart resolves, create_order succeeds
\* with the totals of the formula, and the empty cart gives 0 / 0 / 0 whatever
\* the discount.
C2_EmptyCartAlwaysZero ==
    (req.op = "create_order" /\ FirstUnresolved(req.items) = 0)
    => /\ StoredTotalsAsPriced
       /\ req.items = <<>> => StoredTotalsAreZero

\* C2 amended: when every line of the cart resolves, create_order succeeds with
\* the totals of the formula, and the empty cart gives 0 / 0 / 0 when the
\* discount is not negative.
C2_Totals ==
    (req.op = "create_order" /\ FirstUnresolved(req.items) = 0)
    => /\ StoredTotalsAsPriced
       /\ (req.items = <<>> /\ QLe(Zero, req.discount)) => StoredTotalsAreZero

\* C2 witness: two lines of different tax rates were priced with a discount
\* below S, and the rounded grand total differs from the exact one.
C2_Witness ==
    /\ req.op = "create_order"
    /\ resp.code = 200
    /\ Len(req.items) = 2
    /\ menu[Denoted(req.items[1].menu_item_id)].gst_rate
        # menu[Denoted(req.items[2].menu_item_id)].gst_rate
    /\ req.discount = QInt(50)
    /\ orders[Denoted(resp.body.id)].subtotal # Zero
    /\ orders[Denoted(resp.body.id)].grand_total
        # QAdd(ExpectedSubtotal(req.items, req.discount), ExpectedTax(req.items, req.discount))

\* C3 as stated: the status of every stored order is one of pending, preparing,
\* ready, served, cancelled.
C3_StatusEnumerated ==
    \A x \in DOMAIN orders : orders[x].status \in OrderStatuses

\* C4: update_order_status on an identity that resolves to a stored order
\* succeeds whatever the order's status was, sets that order's status to the
\* requested value and leaves its other fields and every other order as they
\* were; on a well-formed identity of no stored order it fails with not-found
\* (404) and the order store is unchanged.
C4_StatusOverwrite ==
    [][req'.op = "update_order_status"
       => /\ ResolvesIn(orders, req'.order_id)
             => LET x == Denoted(req'.order_id)
                IN  /\ resp'.code = 200
                    /\ DOMAIN orders' = DOMAIN orders
                    /\ orders'[x].status = req'.status
                    /\ \A f \in DOMAIN orders[x] \ {"status"} : orders'[x][f] = orders[x][f]
                    /\ DOMAIN orders'[x] = DOMAIN orders[x]
                    /\ \A y \in DOMAIN orders \ {x} : orders'[y] = orders[y]
          /\ UnknownIn(orders, req'.order_id)
             => (resp'.code = 404 /\ orders' = orders)]_vars

\* C4 witness: of two stored orders, the first was put back to pending by a
\* status update while the second stays cancelled.
C4_Witness ==
    /\ req.op = "update_order_status"
    /\ req.order_id = Pad("a")
    /\ req.status = "pending"
    /\ resp.code = 200
    /\ Cardinality(DOMAIN orders) = 2
    /\ orders[Pad("a")].status = "pending"
    /\ orders[Pad("b")].status = "cancelled"

\* C5: no step removes an order or alters a recorded payment; a successful
\* add_payment appends the payment of the request to the end of its order's list
\* (also when an equal payment is already there), and any other step leaves every
\* list as it was; a new order starts with no payment.
C5_PaymentsAppendOnly ==
    [][/\ \A x \in DOMAIN orders :
            /\ x \in DOMAIN orders'
            /\ orders'[x].payments =
                IF /\ req'.op = "add_payment"
                   /\ ResolvesIn(orders, req'.order_id)
                   /\ Denoted(req'.order_id) = x
                THEN Append(orders[x].payments, req'.payment)
                ELSE orders[x].payments
       /\ \A x \in DOMAIN orders' \ DOMAIN orders : orders'[x].payments = <<>>
       /\ (req'.op = "add_payment" /\ ResolvesIn(orders, req'.order_id))
            => resp'.code = 200]_vars

\* C5 witness: two add_payment calls with the same payload left two entries.
C5_Witness ==
    /\ req.op = "add_payment"
    /\ resp.code = 200
    /\ orders[Denoted(req.order_id)].payments = <<req.payment, req.payment>>

\* C6 as stated: add_payment on a stored order changes no field of it but the
\* payments list, and on a well-formed identity of no stored order it fails with
\* not-found (404) and the order store is unchanged.
C6_OnlyPaymentsChange ==
    [][req'.op = "add_payment"
       => /\ ResolvesIn(orders, req'.order_id)
             => LET x == Denoted(req'.order_id)
                IN  /\ DOMAIN orders'[x] = DOMAIN orders[x]
                    /\ \A f \in DOMAIN orders[x] \ {"payments"} : orders'[x][f] = orders[x][f]
          /\ UnknownIn(orders, req'.order_id)
             => (resp'.code = 404 /\ orders' = orders)]_vars

\* C6 amended: add_payment on a stored order changes no field of it but the
\* payments list and updated_at, which it sets to null; it changes no other
\* order; on a well-formed identity of no stored order it fails with not-found
\* (404) and the order store is unchanged.
C6_PaymentsAndUpdatedAt ==
    [][req'.op = "add_payment"
       => /\ ResolvesIn(orders, req'.order_id)
             => LET x == Denoted(req'.order_id)
                IN  /\ DOMAIN orders' = DOMAIN orders
                    /\ DOMAIN orders'[x] = DOMAIN orders[x]
                    /\ \A f \in DOMAIN orders[x] \ {"payments", "updated_at"} :
                            orders'[x][f] = orders[x][f]
                    /\ orders'[x].updated_at = Null
                    /\ \A y \in DOMAIN orders \ {x} : orders'[y] = orders[y]
          /\ UnknownIn(orders, req'.order_id)
             => (resp'.code = 404 /\ orders' = orders)]_vars

\* C6 witness: a payment was recorded on one of two stored orders; its updated_at
\* is null, its status is still pending and its grand total still 157.5.
C6_Witness ==
    /\ req.op = "add_payment"
    /\ resp.code = 200
    /\ Cardinality(DOMAIN orders) = 2
    /\ Len(orders[Denoted(req.order_id)].payments) = 1
    /\ orders[Denoted(req.order_id)].updated_at = Null
    /\ orders[Denoted(req.order_id)].status = "pending"
    /\ orders[Denoted(req.order_id)].grand_total = Q(1575, 10)

\* C7 as stated: every recorded payment has a method among cash, card, upi,
\* wallet, split, other and an amount >= 0.
C7_PaymentsValid ==
    \A x \in DOMAIN orders : \A i \in 1..Len(orders[x].payments) :
        /\ orders[x].payments[i].method \in PaymentMethods
        /\ QLe(Zero, orders[x].payments[i].amount)

\* The fields of an order that create_order prices.
Snapshot == {"subtotal", "tax_total", "grand_total", "discount", "items"}

\* C8: no step removes an order or changes its subtotal, tax_total, grand_total,
\* discount or lines; the lines create_order stores are those of the cart, in the
\* cart's order, each with the name, price and tax rate of its menu item and the
\* identity, quantity and note of the request; get_order_bill returns the stored
\* order field by field, with its identity, and changes nothing.
C8_SnapshotFrozen ==
    [][/\ \A x \in DOMAIN orders :
            /\ x \in DOMAIN orders'
            /\ \A f \in Snapshot : orders'[x][f] = orders[x][f]
       /\ (req'.op = "create_order" /\ resp'.code = 200)
            => LET o == orders'[Denoted(resp'.body.id)]
               IN  /\ Denoted(resp'.body.id) \notin DOMAIN orders
                   /\ o.discount = req'.discount
                   /\ Len(o.items) = Len(req'.items)
                   /\ \A i \in 1..Len(o.items) :
                        LET mi == menu[Denoted(req'.items[i].menu_item_id)]
                        IN  /\ o.items[i].menu_item_id = req'.items[i].menu_item_id
                            /\ o.items[i].quantity = req'.items[i].quantity
                            /\ o.items[i].notes = req'.items[i].notes
                            /\ o.items[i].name = mi.name
                            /\ o.items[i].price = mi.price
                            /\ o.items[i].gst_rate = mi.gst_rate
       /\ (req'.op = "get_order_bill" /\ ResolvesIn(orders, req'.order_id))
            => LET x == Denoted(req'.order_id)
               IN  /\ resp'.code = 200
                   /\ orders' = orders
                   /\ DOMAIN resp'.body = DOMAIN orders[x] \cup {"_id"}
                   /\ resp'.body["_id"] = x
                   /\ \A f \in DOMAIN orders[x] : resp'.body[f] = orders[x][f]]_vars

\* C8 witness: the bill of an order of two lines, stored in the cart's order and
\* not in that of the menu, was fetched after the order was served and paid, and
\* shows the totals priced with the discount.
C8_Witness ==
    /\ req.op = "get_order_bill"
    /\ req.order_id = Pad("A")
    /\ resp.code = 200
    /\ resp.body["_id"] = Pad("a")
    /\ Len(resp.body.items) = 2
    /\ resp.body.items[1].menu_item_id = Pad("2")
    /\ resp.body.status = "served"
    /\ Len(resp.body.payments) = 1
    /\ resp.body.discount = QInt(50)
    /\ IsRounded2(QAdd(ExpectedSubtotal(resp.body.items, resp.body.discount),
                       ExpectedTax(resp.body.items, resp.body.discount)),
                  resp.body.grand_total)

\* The sum of grand_total over the first k orders stored.
RECURSIVE Revenue(_)
Revenue(k) ==
    IF k = 0 THEN Zero ELSE QAdd(Revenue(k - 1), orders[Pad(OrderKeys[k])].grand_total)

\* C9: sales_report answers {revenue: 0, orders: 0} when no order is stored, and
\* otherwise the number of stored orders and the sum of their grand totals
\* rounded to 2 decimals, whatever their status and whatever the date filter;
\* it changes no stored state.
C9_SalesReport ==
    [][req'.op = "sales_report"
       => /\ orders' = orders
          /\ menu' = menu
          /\ resp'.code = 200
          /\ IF DOMAIN orders = {}
             THEN resp'.body = [revenue |-> Zero, orders |-> 0]
             ELSE /\ resp'.body.orders = Cardinality(DOMAIN orders)
                  /\ IsRounded2(Revenue(Cardinality(DOMAIN orders)), resp'.body.revenue)]_vars

\* C9 witness: a report with a date range counted two orders, one of them
\* cancelled, with different grand totals.
C9_Witness ==
    /\ req.op = "sales_report"
    /\ req.filters.date_from # Null
    /\ resp.body.orders = 2
    /\ orders[Pad("a")].status = "cancelled"
    /\ orders[Pad("b")].status = "served"
    /\ orders[Pad("a")].grand_total # orders[Pad("b")].grand_total
    /\ resp.body.revenue = QAdd(orders[Pad("a")].grand_total, orders[Pad("b")].grand_total)

\* The identity strings of a request: the lines' of a cart, or the order's.
HasMalformedId(r) ==
    IF r.op = "create_order"
    THEN \E i \in 1..Len(r.items) : ~WellFormed(r.items[i].menu_item_id)
    ELSE IF r.op \in {"update_order_status", "add_payment", "get_order_bill"}
    THEN ~WellFormed(r.order_id)
    ELSE FALSE

\* C10 as stated: a request with a malformed identity string, at any position of
\* a cart, fails with invalid-id (400) with no store lookup made and no store
\* modified.
C10_InvalidIdBeforeAnyLookup ==
    [][HasMalformedId(req')
       => /\ resp'.code = 400
          /\ lookups' = <<>>
          /\ orders' = orders
          /\ menu' = menu]_vars

\* C10 amended: a request with a malformed identity string modifies no store;
\* update_order_status, add_payment and get_order_bill fail with invalid-id (400)
\* with no lookup made; create_order resolves its lines in order, so it fails
\* with invalid-id when the first line that does not resolve is the malformed
\* one, having looked up exactly the lines before it, and with not-found (404)
\* when a well-formed unknown line comes first.
C10_InvalidIdNoSideEffect ==
    [][HasMalformedId(req')
       => /\ orders' = orders
          /\ menu' = menu
          /\ IF req'.op = "create_order"
             THEN LET k == FirstUnresolved(req'.items)
                  IN  IF WellFormed(req'.items[k].menu_item_id)
                      THEN resp'.code = 404
                      ELSE /\ resp'.code = 400
                           /\ lookups' = [i \in 1..(k - 1) |->
                                [coll |-> "menuitem",
                                 oid |-> Denoted(req'.items[i].menu_item_id)]]
             ELSE resp'.code = 400 /\ lookups' = <<>>]_vars

\* C10 witness: a cart whose second line is malformed was refused with 400 after
\* the lookup of its first line, and no order was stored.
C10_Witness ==
    /\ req.op = "create_order"
    /\ Len(req.items) = 2
    /\ ResolvesIn(menu, req.items[1].menu_item_id)
    /\ ~WellFormed(req.items[2].menu_item_id)
    /\ resp.code = 400
    /\ lookups = <<[coll |-> "menuitem", oid |-> Denoted(req.items[1].menu_item_id)]>>
    /\ DOMAIN orders = {}

====
